---- MODULE Spec2Model ----
(***************************************************************************)
(* Hotel management backend: booking lifecycle, document upload/delete     *)
(* transaction and bearer-token protection of the REST endpoints.          *)
(*                                                                         *)
(* The database is modelled by its committed tables (users, rooms,         *)
(* customers, bookings), the object store by the set of stored keys, and   *)
(* every request by the whole handler: dependency resolution               *)
(* (get_current_user), the session block, and the exception handlers that  *)
(* turn an outcome into a status code.  The last response is kept in resp. *)
(***************************************************************************)
EXTENDS Integers, Sequences, FiniteSets, TLC

VARIABLES
    users,      \* users table: username -> [password, is_active]
    rooms,      \* rooms table: number of rows, ids 1..rooms (autoincrement)
    customers,  \* customers table: sequence of rows, id = index
    bookings,   \* bookings table: sequence of rows, id = index
    s3,         \* object store: set of keys that hold an object
    tokens,     \* bearer tokens handed out by login (held by clients)
    now,        \* wall clock (datetime.now)
    workers,    \* per worker: [pc, req, code] of the create-booking it handles
    resp        \* last response sent, with what the handler saw: see Response

vars == <<users, rooms, customers, bookings, s3, tokens, now, workers, resp>>

----------------------------------------------------------------------------
(* Bounds of the model *)

MaxBookings == 1
MaxRoomBookings == 2
MaxRooms == 2
MaxTime == 2
MaxCustomers == 2

Workers == {"w1", "w2"}

----------------------------------------------------------------------------
(* Enumerations: app/models/enums.py *)

BookingStatus ==
    [PREBOOKED |-> "prebooked", CONFIRMED |-> "confirmed",
     CHECKED_IN |-> "checked_in", CHECKED_OUT |-> "checked_out",
     NO_SHOW |-> "no_show", CANCELLED |-> "cancelled"]

BookingStatusValues == {BookingStatus[m] : m \in DOMAIN BookingStatus}

\* A nullable value is the empty tuple (Python None) or a one-element tuple.
None == <<>>
Some(v) == <<v>>

----------------------------------------------------------------------------
(* Configuration: app/core/config.py *)

SECRET_KEY == "DEV-KEY-INSECURE-CHANGE-IN-PRODUCTION"
ACCESS_TOKEN_EXPIRE_MINUTES == 30
AWS_S3_BUCKET_NAME == "hotel-management-uploads"
AWS_S3_REGION == "us-east-1"

----------------------------------------------------------------------------
(* Responses *)

\* op: the endpoint; code, detail, body: the HTTP status, the message and the
\* stored data the response carries; arg: the id in the path; pre: what the
\* handler found before it acted (the booking's status, or the outcome of its
\* object-store call); auth: what get_current_user makes of the request's
\* Authorization header ("ok" or the detail of its 401).
Response(op, code, detail, arg, pre, body) ==
    [op |-> op, code |-> code, detail |-> detail, arg |-> arg, pre |-> pre,
     body |-> body, auth |-> "ok"]

NoResponse == Response("none", 0, "", 0, "", {})

----------------------------------------------------------------------------
(* Authentication: app/core/security.py, app/api/dependencies/auth_deps.py *)

\* bcrypt hash of a password and its verification.
get_password_hash(password) == <<"bcrypt", password>>
verify_password(plain_password, hashed_password) ==
    hashed_password = <<"bcrypt", plain_password>>

\* A signed token: the claims and the key it was signed with.
AccessToken(subject, issued, expires_delta) ==
    [exp |-> issued + expires_delta, iat |-> issued, sub |-> subject,
     type |-> "access_token", key |-> SECRET_KEY]

create_access_token(subject, expires_delta) ==
    AccessToken(subject, now, expires_delta)

\* What a client can put in the Authorization header besides an issued token:
\* nothing at all, or a token signed with a key that is not the server's.
NoCredentials ==
    [exp |-> 0, iat |-> 0, sub |-> "", type |-> "absent", key |-> ""]
ForgedToken ==
    [exp |-> MaxTime + ACCESS_TOKEN_EXPIRE_MINUTES, iat |-> 0, sub |-> "admin",
     type |-> "access_token", key |-> "guessed"]
Credentials == tokens \cup {NoCredentials, ForgedToken}

\* get_current_user as it would be if jwt.decode did not look at the exp claim.
get_current_user_ignoring_expiry(token) ==
    IF token.type = "absent" THEN "Not authenticated"
    ELSE IF token.key # SECRET_KEY THEN "Could not validate credentials"
    ELSE IF token.sub = "" THEN "Could not validate credentials"
    ELSE IF token.type # "access_token" THEN "Invalid token type"
    ELSE IF token.sub \notin DOMAIN users THEN "Could not validate credentials"
    ELSE IF ~users[token.sub].is_active THEN "Inactive user"
    ELSE "ok"

\* The detail of the 401 get_current_user raises, or "ok" with the user found.
\* jwt.decode raises ExpiredSignatureError when the exp claim lies behind the
\* clock; both are whole numbers of clock units.
get_current_user(token) ==
    IF token.type = "absent" THEN "Not authenticated"
    ELSE IF token.key # SECRET_KEY THEN "Could not validate credentials"
    ELSE IF token.exp < now THEN "Token has expired"
    ELSE IF token.sub = "" THEN "Could not validate credentials"
    ELSE IF token.type # "access_token" THEN "Invalid token type"
    ELSE IF token.sub \notin DOMAIN users THEN "Could not validate credentials"
    ELSE IF ~users[token.sub].is_active THEN "Inactive user"
    ELSE "ok"

Unauthorized(op, token) ==
    resp' = [Response(op, 401, get_current_user(token), 0, "", {})
                EXCEPT !.auth = get_current_user(token)]

----------------------------------------------------------------------------
(* Authentication endpoints: app/api/endpoints/auth.py *)

Usernames == {"admin", "ghost"}
Passwords == {"admin123", "wrong"}

\* POST /auth/login
login(username, password) ==
    /\ IF username \notin DOMAIN users
          \/ ~verify_password(password, users[username].hashed_password)
       THEN /\ resp' = Response("login", 401, "Invalid credentials", 0, "", {})
            /\ UNCHANGED tokens
       ELSE /\ tokens' = tokens \cup
                 {create_access_token(username, ACCESS_TOKEN_EXPIRE_MINUTES)}
            /\ resp' = Response("login", 200, "bearer", 0, "", {username})
    /\ UNCHANGED <<users, rooms, customers, bookings, s3, now, workers>>

\* The users table changed from outside the API: no endpoint clears
\* is_active or removes a row, an operator does it on the database.
deactivate_user(username) ==
    /\ username \in DOMAIN users
    /\ users[username].is_active
    /\ users' = [users EXCEPT ![username].is_active = FALSE]
    /\ UNCHANGED <<rooms, customers, bookings, s3, tokens, now, workers, resp>>

delete_user(username) ==
    /\ username \in DOMAIN users
    /\ users' = [u \in DOMAIN users \ {username} |-> users[u]]
    /\ UNCHANGED <<rooms, customers, bookings, s3, tokens, now, workers, resp>>

----------------------------------------------------------------------------
(* Bookings: app/models/bookings.py, app/api/endpoints/bookings.py *)

ActiveStatuses ==
    {BookingStatus.CHECKED_IN, BookingStatus.CONFIRMED, BookingStatus.PREBOOKED}

\* is_room_occupied as it would be with closed intervals: a booking that only
\* touches the requested dates occupies the room.
is_room_occupied_closed(rows, room_id, check_in_date, check_out_date) ==
    \E i \in 1..Len(rows) :
        /\ rows[i].room_id = room_id
        /\ rows[i].booking_status \in
              {BookingStatus.CHECKED_IN, BookingStatus.CONFIRMED,
               BookingStatus.PREBOOKED}
        /\ rows[i].scheduled_check_in <= check_out_date
        /\ rows[i].scheduled_check_out >= check_in_date

\* BookingDB.is_room_occupied over the committed rows `rows`.
is_room_occupied(rows, room_id, check_in_date, check_out_date) ==
    \E i \in 1..Len(rows) :
        /\ rows[i].room_id = room_id
        /\ rows[i].booking_status \in ActiveStatuses
        /\ rows[i].scheduled_check_in < check_out_date
        /\ rows[i].scheduled_check_out > check_in_date

\* date.today() on the model's clock (one tick is one day).
Today == now

\* BookingCreate as it would be without the validator of amount_paid.
BookingCreate_without_amount_paid(req) ==
    IF req.scheduled_check_in < now
    THEN "Check-in date cannot be in the past"
    ELSE IF req.scheduled_check_out <= req.scheduled_check_in
    THEN "Check-out date must be after check-in date"
    ELSE IF req.total_amount <= 0
    THEN "Total amount must be greater than zero"
    ELSE "ok"

\* BookingCreate's field validators, in the order of the fields: the detail
\* of the first failure, or "ok".  A validator that reads an earlier field
\* from info.data finds it there only if that field passed.
BookingCreate(req) ==
    IF req.scheduled_check_in < Today
    THEN "Check-in date cannot be in the past"
    ELSE IF req.scheduled_check_out <= req.scheduled_check_in
    THEN "Check-out date must be after check-in date"
    ELSE IF req.total_amount <= 0
    THEN "Total amount must be greater than zero"
    ELSE IF req.amount_paid < 0
    THEN "Amount paid cannot be negative"
    ELSE IF req.amount_paid > req.total_amount
    THEN "Amount paid cannot exceed total amount"
    ELSE "ok"

\* BookingDB(**booking.model_dump()): the row of a new booking.
BookingDB(req) ==
    [room_id |-> req.room_id, customer_id |-> req.customer_id,
     scheduled_check_in |-> req.scheduled_check_in,
     scheduled_check_out |-> req.scheduled_check_out,
     actual_check_in |-> None, actual_check_out |-> None,
     booking_status |-> req.booking_status,
     total_amount |-> req.total_amount, amount_paid |-> req.amount_paid]

\* The requests a client can send to POST /create-booking.
RoomIds == {1, 2, 3}
CustomerIds == {1, 2}
Days == {0, 1, 2, 3}
Amounts == {-1, 0, 1, 2}
BookingRequests ==
    [room_id : RoomIds, customer_id : CustomerIds,
     scheduled_check_in : Days, scheduled_check_out : Days,
     booking_status : BookingStatusValues,
     total_amount : Amounts, amount_paid : Amounts]

\* The requests for a stay of price 2 with 1 paid in advance.
PricedRequests ==
    {r \in BookingRequests : r.total_amount = 2 /\ r.amount_paid = 1}

\* create_booking's second part as it would be without the customer lookup.
create_booking_commit_without_customer(req) ==
    IF req.room_id \notin rooms
    THEN /\ resp' = Response("create_booking", 404, "Room not found", 0, "", {})
         /\ UNCHANGED bookings
    ELSE /\ bookings' = Append(bookings,
                [room_id |-> req.room_id, customer_id |-> req.customer_id,
                 scheduled_check_in |-> req.scheduled_check_in,
                 scheduled_check_out |-> req.scheduled_check_out,
                 actual_check_in |-> None, actual_check_out |-> None,
                 booking_status |-> req.booking_status,
                 total_amount |-> req.total_amount,
                 amount_paid |-> req.amount_paid])
         /\ resp' = Response("create_booking", 201, "created",
                             Len(bookings) + 1, "", {})

\* The part of create_booking after the availability query: verify room and
\* customer, add the row, commit.
create_booking_commit(req) ==
    IF req.room_id \notin rooms
    THEN /\ resp' = Response("create_booking", 404, "Room not found", 0, "", {})
         /\ UNCHANGED bookings
    ELSE IF req.customer_id \notin 1..Len(customers)
    THEN /\ resp' = Response("create_booking", 404, "Customer not found", 0, "", {})
         /\ UNCHANGED bookings
    ELSE /\ bookings' = Append(bookings, BookingDB(req))
         /\ resp' = Response("create_booking", 201, "created",
                             Len(bookings) + 1, "", {})

\* POST /create-booking, run without interleaving.
create_booking(token, req) ==
    /\ IF get_current_user(token) # "ok"
       THEN Unauthorized("create_booking", token) /\ UNCHANGED bookings
       ELSE IF BookingCreate(req) # "ok"
       THEN /\ resp' = Response("create_booking", 422, BookingCreate(req), 0, "", {})
            /\ UNCHANGED bookings
       ELSE IF is_room_occupied(bookings, req.room_id, req.scheduled_check_in,
                                req.scheduled_check_out)
       THEN /\ resp' = Response("create_booking", 400,
                                "Room is not available for the selected dates",
                                0, "", {})
            /\ UNCHANGED bookings
       ELSE create_booking_commit(req)
    /\ UNCHANGED <<users, rooms, customers, s3, tokens, now, workers>>

\* POST /create-booking as the database sees it from one worker: the
\* availability query runs first, on the rows committed at that moment; the
\* insert and commit follow in a second step.  No lock is taken in between.
Idle == [pc |-> "idle", req |-> None, code |-> 0]

create_booking_begin(w, token, req) ==
    /\ workers[w].pc = "idle"
    /\ IF get_current_user(token) # "ok"
       THEN /\ Unauthorized("create_booking", token)
            /\ workers' = [workers EXCEPT ![w] =
                   [pc |-> "done", req |-> Some(req), code |-> 401]]
       ELSE IF BookingCreate(req) # "ok"
       THEN /\ resp' = Response("create_booking", 422, BookingCreate(req), 0, "", {})
            /\ workers' = [workers EXCEPT ![w] =
                   [pc |-> "done", req |-> Some(req), code |-> 422]]
       ELSE IF is_room_occupied(bookings, req.room_id, req.scheduled_check_in,
                                req.scheduled_check_out)
       THEN /\ resp' = Response("create_booking", 400,
                                "Room is not available for the selected dates",
                                0, "", {})
            /\ workers' = [workers EXCEPT ![w] =
                   [pc |-> "done", req |-> Some(req), code |-> 400]]
       ELSE /\ workers' = [workers EXCEPT ![w] =
                   [pc |-> "checked", req |-> Some(req), code |-> 0]]
            /\ UNCHANGED resp
    /\ UNCHANGED <<users, rooms, customers, bookings, s3, tokens, now>>

create_booking_end(w) ==
    /\ workers[w].pc = "checked"
    /\ create_booking_commit(workers[w].req[1])
    /\ workers' = [workers EXCEPT ![w].pc = "done", ![w].code = resp'.code]
    /\ UNCHANGED <<users, rooms, customers, s3, tokens, now>>

\* GET /bookings
get_bookings(token) ==
    /\ IF get_current_user(token) # "ok"
       THEN Unauthorized("get_bookings", token)
       ELSE resp' = Response("get_bookings", 200, "ok", 0, "",
                             {bookings[i] : i \in 1..Len(bookings)})
    /\ UNCHANGED <<users, rooms, customers, bookings, s3, tokens, now, workers>>

\* The booking ids a client can name: the rows there can be, and one beyond.
BookingIds == 1..(MaxRoomBookings + 1)

\* check_in as it would be if it insisted on the confirmed status: a
\* prebooked booking is turned away.
check_in_confirmed_only(token, booking_id) ==
    /\ IF get_current_user(token) # "ok"
       THEN Unauthorized("check_in", token) /\ UNCHANGED bookings
       ELSE IF booking_id \notin 1..Len(bookings)
       THEN /\ resp' = Response("check_in", 404, "Booking not found",
                                booking_id, "", {})
            /\ UNCHANGED bookings
       ELSE IF bookings[booking_id].booking_status # BookingStatus.CONFIRMED
       THEN /\ resp' = Response("check_in", 400, "Cannot check in",
                                booking_id, bookings[booking_id].booking_status, {})
            /\ UNCHANGED bookings
       ELSE /\ bookings' = [bookings EXCEPT
                   ![booking_id].actual_check_in = Some(now),
                   ![booking_id].booking_status = BookingStatus.CHECKED_IN]
            /\ resp' = Response("check_in", 200, "Check-in successful",
                                booking_id, bookings[booking_id].booking_status, {})
    /\ UNCHANGED <<users, rooms, customers, s3, tokens, now, workers>>

\* PATCH /bookings/{booking_id}/check-in
check_in(token, booking_id) ==
    /\ IF get_current_user(token) # "ok"
       THEN Unauthorized("check_in", token) /\ UNCHANGED bookings
       ELSE IF booking_id \notin 1..Len(bookings)
       THEN /\ resp' = Response("check_in", 404, "Booking not found",
                                booking_id, "", {})
            /\ UNCHANGED bookings
       ELSE /\ bookings' = [bookings EXCEPT
                   ![booking_id].actual_check_in = Some(now),
                   ![booking_id].booking_status = BookingStatus.CHECKED_IN]
            /\ resp' = Response("check_in", 200, "Check-in successful",
                                booking_id, bookings[booking_id].booking_status, {})
    /\ UNCHANGED <<users, rooms, customers, s3, tokens, now, workers>>

\* PATCH /bookings/{booking_id}/check-out
check_out(token, booking_id) ==
    /\ IF get_current_user(token) # "ok"
       THEN Unauthorized("check_out", token) /\ UNCHANGED bookings
       ELSE IF booking_id \notin 1..Len(bookings)
       THEN /\ resp' = Response("check_out", 404, "Booking not found",
                                booking_id, "", {})
            /\ UNCHANGED bookings
       ELSE /\ bookings' = [bookings EXCEPT
                   ![booking_id].actual_check_out = Some(now),
                   ![booking_id].booking_status = BookingStatus.CHECKED_OUT]
            /\ resp' = Response("check_out", 200, "Check-out successful",
                                booking_id, bookings[booking_id].booking_status, {})
    /\ UNCHANGED <<users, rooms, customers, s3, tokens, now, workers>>

\* PATCH /bookings/{booking_id}/cancel.  The guard reads BookingStatus.PENDING:
\* looking up a member the enumeration does not have raises AttributeError,
\* which the handler's `except Exception` turns into a 500 after the session
\* has rolled back.
cancel_booking(token, booking_id) ==
    /\ IF get_current_user(token) # "ok"
       THEN Unauthorized("cancel_booking", token) /\ UNCHANGED bookings
       ELSE IF booking_id \notin 1..Len(bookings)
       THEN /\ resp' = Response("cancel_booking", 404, "Booking not found",
                                booking_id, "", {})
            /\ UNCHANGED bookings
       ELSE IF "PENDING" \notin DOMAIN BookingStatus
       THEN /\ resp' = Response("cancel_booking", 500, "Failed to cancel booking",
                                booking_id, bookings[booking_id].booking_status, {})
            /\ UNCHANGED bookings
       ELSE IF bookings[booking_id].booking_status \notin
                   {BookingStatus["PENDING"], BookingStatus.CONFIRMED}
       THEN /\ resp' = Response("cancel_booking", 400,
                                "Cannot cancel booking in current status",
                                booking_id, bookings[booking_id].booking_status, {})
            /\ UNCHANGED bookings
       ELSE /\ bookings' = [bookings EXCEPT
                   ![booking_id].booking_status = BookingStatus.CANCELLED]
            /\ resp' = Response("cancel_booking", 200,
                                "Booking cancelled successfully",
                                booking_id, bookings[booking_id].booking_status, {})
    /\ UNCHANGED <<users, rooms, customers, s3, tokens, now, workers>>

----------------------------------------------------------------------------
(* File validation: app/services/file_validator.py *)
(* A filename is a sequence of characters; a file's content is its length  *)
(* and the MIME type libmagic detects in its bytes.                        *)

MAX_FILE_SIZE == 10485760

ALLOWED_FILE_TYPES ==
    [ext \in {<<"p", "d", "f">>, <<"j", "p", "g">>, <<"j", "p", "e", "g">>,
              <<"p", "n", "g">>} |->
        IF ext = <<"p", "d", "f">> THEN "application/pdf"
        ELSE IF ext = <<"p", "n", "g">> THEN "image/png"
        ELSE "image/jpeg"]

ALLOWED_EXTENSIONS == DOMAIN ALLOWED_FILE_TYPES
ALLOWED_MIME_TYPES == {ALLOWED_FILE_TYPES[e] : e \in ALLOWED_EXTENSIONS}

\* Positions of character c in filename.
Positions(filename, c) == {i \in 1..Len(filename) : filename[i] = c}

Max(S) == CHOOSE x \in S : \A y \in S : y <= x

RECURSIVE StripTrailing(_, _)
StripTrailing(filename, c) ==
    IF filename # <<>> /\ filename[Len(filename)] = c
    THEN StripTrailing(SubSeq(filename, 1, Len(filename) - 1), c)
    ELSE filename

\* Path(filename).name on a POSIX path: the last component, trailing slashes
\* and trailing "." components dropped; "" for "", "." and "/".
RECURSIVE PathName(_)
PathName(filename) ==
    LET p == StripTrailing(filename, "/")
        slashes == Positions(p, "/")
        last == IF slashes = {} THEN p
                ELSE SubSeq(p, Max(slashes) + 1, Len(p))
    IN  IF p = <<>> THEN <<>>
        ELSE IF last = <<".">>
        THEN IF slashes = {} THEN <<>>
             ELSE PathName(SubSeq(p, 1, Max(slashes)))
        ELSE last

\* \w, "-" and "." : the characters re.sub(r"[^\w\-.]", "_", ...) keeps.
WordChars ==
    {"a", "c", "d", "e", "f", "g", "m", "n", "o", "p", "s", "t", "u", "w", "x",
     "D", "F", "P", "_", "1"}
IsKept(c) == c \in WordChars \cup {"-", "."}

\* _extract_and_sanitize_filename as it would be if it kept the directories
\* and replaced the separators with the other unsafe characters.
extract_and_sanitize_filename_keeping_path(filename) ==
    IF filename = <<>> THEN <<"error", "Filename is required">>
    ELSE <<"ok", [i \in 1..Len(filename) |->
                    IF IsKept(filename[i]) THEN filename[i] ELSE "_"]>>

\* The detail of the ValueError, as <<"error", detail>>, or <<"ok", name>>.
extract_and_sanitize_filename(filename) ==
    LET safe_filename == PathName(filename)
    IN  IF filename = <<>> THEN <<"error", "Filename is required">>
        ELSE IF safe_filename = <<>> THEN <<"error", "Invalid filename">>
        ELSE <<"ok", [i \in 1..Len(safe_filename) |->
                        IF IsKept(safe_filename[i]) THEN safe_filename[i] ELSE "_"]>>

Lower(c) ==
    CASE c = "P" -> "p"
      [] c = "D" -> "d"
      [] c = "F" -> "f"
      [] OTHER -> c

extract_extension(filename) ==
    LET dots == Positions(filename, ".")
        extension == [i \in 1..(Len(filename) - Max(dots)) |->
                         Lower(filename[Max(dots) + i])]
    IN  IF dots = {} THEN <<"error", "Filename must include extension">>
        ELSE IF extension = <<>> \/ Len(extension) > 10
        THEN <<"error", "Invalid file extension">>
        ELSE <<"ok", extension>>

\* validate_file as it would be if the extension were looked at before the
\* size.
validate_file_extension_first(filename, content) ==
    LET safe == extract_and_sanitize_filename(filename)
        ext == extract_extension(safe[2])
    IN  IF safe[1] = "error" THEN safe
        ELSE IF ext[1] = "error" THEN ext
        ELSE IF ext[2] \notin ALLOWED_EXTENSIONS
        THEN <<"error", "File type not allowed">>
        ELSE IF content.len > MAX_FILE_SIZE
        THEN <<"error", "File exceeds maximum size">>
        ELSE IF content.mime \notin ALLOWED_MIME_TYPES
        THEN <<"error", "File content does not match declared type">>
        ELSE <<"ok", safe[2], ext[2], ALLOWED_FILE_TYPES[ext[2]]>>

\* validate_file: <<"error", detail>> or <<"ok", safe_filename, extension,
\* content_type>>.
validate_file(filename, content) ==
    LET safe == extract_and_sanitize_filename(filename)
        ext == extract_extension(safe[2])
    IN  IF content.len > MAX_FILE_SIZE
        THEN <<"error", "File exceeds maximum size">>
        ELSE IF safe[1] = "error" THEN safe
        ELSE IF ext[1] = "error" THEN ext
        ELSE IF ext[2] \notin ALLOWED_EXTENSIONS
        THEN <<"error", "File type not allowed">>
        ELSE IF content.mime \notin ALLOWED_MIME_TYPES
        THEN <<"error", "File content does not match declared type">>
        ELSE <<"ok", safe[2], ext[2], ALLOWED_FILE_TYPES[ext[2]]>>

----------------------------------------------------------------------------
(* Object store: app/services/s3_service.py *)

\* customer_proofs/{customer_id}/{timestamp_ms}_{filename}
generate_s3_key(customer_id, filename) == <<"customer_proofs", customer_id, now, filename>>

\* https://{bucket}.s3.{region}.amazonaws.com/{key}
generate_s3_url(s3_key) ==
    [host |-> <<AWS_S3_BUCKET_NAME, "s3", AWS_S3_REGION, "amazonaws.com">>,
     path |-> s3_key]

\* The key of a URL of the bucket, <<"ok", key>>, or <<"error">> (ValueError).
get_s3_key_from_url(s3_url) ==
    IF s3_url.host = <<AWS_S3_BUCKET_NAME, "s3", AWS_S3_REGION, "amazonaws.com">>
    THEN <<"ok", s3_url.path>>
    ELSE IF /\ s3_url.host \in {<<"s3", AWS_S3_REGION, "amazonaws.com">>,
                                <<"s3", "amazonaws.com">>}
            /\ s3_url.path # <<>>
            /\ s3_url.path[1] = AWS_S3_BUCKET_NAME
    THEN <<"ok", Tail(s3_url.path)>>
    ELSE <<"error">>

\* What a call to the object store can do: succeed, raise ClientError, or
\* raise another exception.
S3Outcomes == {"ok", "ClientError", "Exception"}

\* What session.commit() can do: commit, or raise (the session rolls back).
CommitOutcomes == {"ok", "Exception"}

----------------------------------------------------------------------------
(* Documents: app/api/endpoints/documents.py *)


\* upload_document when s3_service.upload_file raises: ClientError becomes a
\* 503, anything else a 500; the exception leaves the session block, which
\* rolls back, and nothing has been written to the row or the store.
upload_failed(customer_id, put_object) ==
    /\ resp' = IF put_object = "ClientError"
               THEN Response("upload_document", 503,
                             "File upload service temporarily unavailable",
                             customer_id, put_object, {})
               ELSE Response("upload_document", 500, "Failed to upload document",
                             customer_id, put_object, {})
    /\ UNCHANGED <<customers, s3>>

\* POST /upload-document/{customer_id}
upload_document(token, customer_id, file, put_object, commit) ==
    LET valid == validate_file(IF file.filename = <<>>
                               THEN <<"d", "o", "c", "u", "m", "e", "n", "t">>
                               ELSE file.filename, file.content)
        s3_key == generate_s3_key(customer_id, valid[2])
    IN
    /\ IF get_current_user(token) # "ok"
       THEN Unauthorized("upload_document", token) /\ UNCHANGED <<customers, s3>>
       ELSE IF valid[1] = "error"
       THEN /\ resp' = Response("upload_document", 400, valid[2], customer_id, "", {})
            /\ UNCHANGED <<customers, s3>>
       ELSE IF customer_id \notin 1..Len(customers)
       THEN /\ resp' = Response("upload_document", 404, "Customer not found",
                                customer_id, "", {})
            /\ UNCHANGED <<customers, s3>>
       ELSE IF put_object # "ok"
       THEN upload_failed(customer_id, put_object)
       ELSE /\ s3' = s3 \cup {s3_key}
            /\ IF commit = "ok"
               THEN /\ customers' = [customers EXCEPT
                          ![customer_id].proof_image_url = Some(generate_s3_url(s3_key)),
                          ![customer_id].proof_image_filename = Some(valid[2])]
                    /\ resp' = Response("upload_document", 201, "uploaded",
                                        customer_id, put_object,
                                        {generate_s3_url(s3_key)})
               ELSE /\ resp' = Response("upload_document", 500,
                                        "Failed to upload document",
                                        customer_id, put_object, {})
                    /\ UNCHANGED customers
    /\ UNCHANGED <<users, rooms, bookings, tokens, now, workers>>

\* DELETE /documents/{customer_id}
delete_document(token, customer_id, delete_object, commit) ==
    LET s3_key == get_s3_key_from_url(customers[customer_id].proof_image_url[1])
    IN
    /\ IF get_current_user(token) # "ok"
       THEN Unauthorized("delete_document", token) /\ UNCHANGED <<customers, s3>>
       ELSE IF customer_id \notin 1..Len(customers)
       THEN /\ resp' = Response("delete_document", 404, "Customer not found",
                                customer_id, "", {})
            /\ UNCHANGED <<customers, s3>>
       ELSE IF customers[customer_id].proof_image_url = None
       THEN /\ resp' = Response("delete_document", 404, "No document found",
                                customer_id, "", {})
            /\ UNCHANGED <<customers, s3>>
       ELSE IF s3_key[1] = "error"
       THEN /\ resp' = Response("delete_document", 500, "Invalid stored document URL",
                                customer_id, "", {})
            /\ UNCHANGED <<customers, s3>>
       ELSE IF delete_object = "ClientError"
       THEN /\ resp' = Response("delete_document", 503,
                                "File deletion service temporarily unavailable",
                                customer_id, delete_object, {})
            /\ UNCHANGED <<customers, s3>>
       ELSE IF delete_object = "Exception"
       THEN /\ resp' = Response("delete_document", 500, "Failed to delete document",
                                customer_id, delete_object, {})
            /\ UNCHANGED <<customers, s3>>
       ELSE /\ s3' = s3 \ {s3_key[2]}
            /\ IF commit = "ok"
               THEN /\ customers' = [customers EXCEPT
                          ![customer_id].proof_image_url = None,
                          ![customer_id].proof_image_filename = None]
                    /\ resp' = Response("delete_document", 200,
                                        "Document deleted successfully",
                                        customer_id, delete_object, {})
               ELSE /\ resp' = Response("delete_document", 500,
                                        "Failed to delete document",
                                        customer_id, delete_object, {})
                    /\ UNCHANGED customers
    /\ UNCHANGED <<users, rooms, bookings, tokens, now, workers>>

----------------------------------------------------------------------------
(* Listings and rooms: app/api/endpoints/auth.py, rooms.py, customers.py,   *)
(* health.py                                                                *)

\* GET /auth/users: the handler declares no get_current_user dependency, so
\* whatever the Authorization header holds plays no part.
get_users(token) ==
    /\ resp' = [Response("get_users", 200, "ok", 0, "", DOMAIN users)
                   EXCEPT !.auth = get_current_user(token)]
    /\ UNCHANGED <<users, rooms, customers, bookings, s3, tokens, now, workers>>

\* GET /rooms
get_rooms(token) ==
    /\ IF get_current_user(token) # "ok"
       THEN Unauthorized("get_rooms", token)
       ELSE resp' = Response("get_rooms", 200, "ok", 0, "", rooms)
    /\ UNCHANGED <<users, rooms, customers, bookings, s3, tokens, now, workers>>

\* POST /create-room
create_room(token) ==
    /\ IF get_current_user(token) # "ok"
       THEN Unauthorized("create_room", token) /\ UNCHANGED rooms
       ELSE /\ rooms' = rooms \cup {Cardinality(rooms) + 1}
            /\ resp' = Response("create_room", 201, "created",
                                Cardinality(rooms) + 1, "", {})
    /\ UNCHANGED <<users, customers, bookings, s3, tokens, now, workers>>

\* GET /customers
get_customers(token) ==
    /\ IF get_current_user(token) # "ok"
       THEN Unauthorized("get_customers", token)
       ELSE resp' = Response("get_customers", 200, "ok", 0, "",
                             {customers[i] : i \in 1..Len(customers)})
    /\ UNCHANGED <<users, rooms, customers, bookings, s3, tokens, now, workers>>

\* GET /health
health ==
    /\ resp' = [Response("health", 200, "ok", 0, "", {}) EXCEPT !.auth = "public"]
    /\ UNCHANGED <<users, rooms, customers, bookings, s3, tokens, now, workers>>

\* The clock moves on.
Tick ==
    /\ now < MaxTime
    /\ now' = now + 1
    /\ UNCHANGED <<users, rooms, customers, bookings, s3, tokens, workers, resp>>

----------------------------------------------------------------------------
(* Specifications *)

\* The database after initial_data.init_db: one active admin user.
Init ==
    /\ users = [u \in {"admin"} |->
                   [hashed_password |-> get_password_hash("admin123"),
                    is_active |-> TRUE]]
    /\ rooms = {}
    /\ customers = <<>>
    /\ bookings = <<>>
    /\ s3 = {}
    /\ tokens = {}
    /\ now = 1
    /\ workers = [w \in Workers |-> Idle]
    /\ resp = NoResponse

\* A hotel that has been set up: two rooms and one customer created.
CustomerRow(email, created) ==
    [email |-> email, proof_image_url |-> None, proof_image_filename |-> None,
     uploaded_at |-> Some(created)]

InitBooking ==
    /\ users = [u \in {"admin"} |->
                   [hashed_password |-> get_password_hash("admin123"),
                    is_active |-> TRUE]]
    /\ rooms = {1, 2}
    /\ customers = <<CustomerRow("a@example.com", 1)>>
    /\ bookings = <<>>
    /\ s3 = {}
    /\ tokens = {}
    /\ now = 1
    /\ workers = [w \in Workers |-> Idle]
    /\ resp = NoResponse

\* A request a client sends without valid credentials: its body plays no part.
AnyBookingRequest == CHOOSE r \in PricedRequests : TRUE

\* Requests for one customer and the two rooms, in a status that blocks the
\* room or in one that does not.
RoomRequests ==
    {r \in PricedRequests :
        /\ r.room_id \in {1, 2}
        /\ r.customer_id = 1
        /\ BookingCreate(r) = "ok"
        /\ r.booking_status \in {BookingStatus.PREBOOKED, BookingStatus.CANCELLED}}

Login == \E u \in Usernames, p \in Passwords : login(u, p)

CreateBookingFrom(requests, cap) ==
    /\ Len(bookings) < cap
    /\ \E t \in Credentials :
          IF get_current_user(t) # "ok"
          THEN create_booking(t, AnyBookingRequest)
          ELSE \E r \in requests : create_booking(t, r)

GetBookings == \E t \in Credentials : get_bookings(t)

CheckIn ==
    \E t \in Credentials :
        IF get_current_user(t) # "ok"
        THEN check_in(t, 1)
        ELSE \E b \in BookingIds : check_in(t, b)

CheckOut ==
    \E t \in Credentials :
        IF get_current_user(t) # "ok"
        THEN check_out(t, 1)
        ELSE \E b \in BookingIds : check_out(t, b)

CancelBooking ==
    \E t \in Credentials :
        IF get_current_user(t) # "ok"
        THEN cancel_booking(t, 1)
        ELSE \E b \in BookingIds : cancel_booking(t, b)

\* The lifecycle of one booking at a time.
CreateBooking == CreateBookingFrom(PricedRequests, MaxBookings)

NextBooking ==
    \/ Login
    \/ CreateBooking
    \/ GetBookings
    \/ CheckIn
    \/ CheckOut
    \/ CancelBooking

SpecBooking == InitBooking /\ [][NextBooking]_vars

\* Several bookings competing for the rooms, one request after the other.
CreateRoomBooking == CreateBookingFrom(RoomRequests, MaxRoomBookings)

NextRoom ==
    \/ Login
    \/ CreateRoomBooking
    \/ CheckIn
    \/ CheckOut
    \/ CancelBooking

SpecRoom == InitBooking /\ [][NextRoom]_vars

\* Two workers, each handling one create-booking request, their steps
\* interleaved in any order.
CreateBegin ==
    \E w \in Workers, t \in Credentials :
        IF get_current_user(t) # "ok"
        THEN create_booking_begin(w, t, AnyBookingRequest)
        ELSE \E r \in RoomRequests : create_booking_begin(w, t, r)

CreateEnd == \E w \in Workers : create_booking_end(w)

NextOverlap ==
    \/ Login
    \/ CreateBegin
    \/ CreateEnd

SpecOverlap == InitBooking /\ [][NextOverlap]_vars

\* Documents of the customers of a hotel that has been set up.
PdfContent == [len |-> 4, mime |-> "application/pdf"]
ExeContent == [len |-> 4, mime |-> "application/x-dosexec"]
HugeContent == [len |-> MAX_FILE_SIZE + 1, mime |-> "application/pdf"]

File(filename, content) == [filename |-> filename, content |-> content]

Files ==
    {File(<<"a", ".", "p", "d", "f">>, PdfContent),
     File(<<"e", ".", "p", "d", "f">>, PdfContent),
     File(<<".", ".", "/", "a", ".", "p", "d", "f">>, PdfContent),
     File(<<"a", ".", "p", "d", "f">>, ExeContent),
     File(<<"a", ".", "p", "d", "f">>, HugeContent),
     File(<<"x", ".", "e", "x", "e">>, ExeContent),
     File(<<>>, PdfContent)}

AnyFile == File(<<"a", ".", "p", "d", "f">>, PdfContent)

\* The outcomes of the store and of the commit are drawn only where the
\* handler gets as far as calling them.
UploadDocument ==
    \E t \in Credentials :
        IF get_current_user(t) # "ok"
        THEN upload_document(t, 1, AnyFile, "ok", "ok")
        ELSE \E c \in CustomerIds, f \in Files :
                IF c \notin 1..Len(customers)
                   \/ validate_file(f.filename, f.content)[1] = "error"
                   \/ f.filename = <<>>
                THEN upload_document(t, c, f, "ok", "ok")
                ELSE \E put \in S3Outcomes, commit \in CommitOutcomes :
                        (put = "ok" \/ commit = "ok")
                        /\ upload_document(t, c, f, put, commit)

DeleteDocument ==
    \E t \in Credentials :
        IF get_current_user(t) # "ok"
        THEN delete_document(t, 1, "ok", "ok")
        ELSE \E c \in CustomerIds :
                IF c \notin 1..Len(customers)
                THEN delete_document(t, c, "ok", "ok")
                ELSE \E del \in S3Outcomes, commit \in CommitOutcomes :
                        (del = "ok" \/ commit = "ok")
                        /\ delete_document(t, c, del, commit)

NextDoc ==
    \/ UploadDocument
    \/ DeleteDocument
    \/ Tick

\* The hotel that has been set up, with the admin logged in.
InitDoc ==
    /\ users = [u \in {"admin"} |->
                   [hashed_password |-> get_password_hash("admin123"),
                    is_active |-> TRUE]]
    /\ rooms = {1, 2}
    /\ customers = <<CustomerRow("a@example.com", 1)>>
    /\ bookings = <<>>
    /\ s3 = {}
    /\ tokens = {AccessToken("admin", 1, ACCESS_TOKEN_EXPIRE_MINUTES)}
    /\ now = 1
    /\ workers = [w \in Workers |-> Idle]
    /\ resp = NoResponse

SpecDoc == InitDoc /\ [][NextDoc]_vars

\* Every endpoint that lists stored data or adds a room, from the empty
\* database on.
GetUsers == \E t \in Credentials : get_users(t)
GetRooms == \E t \in Credentials : get_rooms(t)
CreateRoom == Cardinality(rooms) < MaxRooms /\ \E t \in Credentials : create_room(t)
GetCustomers == \E t \in Credentials : get_customers(t)
Health == health

NextApi ==
    \/ Login
    \/ GetUsers
    \/ GetRooms
    \/ CreateRoom
    \/ GetCustomers
    \/ GetBookings
    \/ Health
    \/ Tick

SpecApi == Init /\ [][NextApi]_vars

\* Bookings created from every kind of request: rooms and customers that
\* exist or not, dates in the past or in the wrong order, amounts of every
\* sign.
CreateRequests ==
    [room_id : {1, 3}, customer_id : CustomerIds,
     scheduled_check_in : {0, 1}, scheduled_check_out : {1, 2},
     booking_status : {BookingStatus.PREBOOKED},
     total_amount : Amounts, amount_paid : Amounts]

CreateAnyBooking == CreateBookingFrom(CreateRequests, MaxRoomBookings)

NextCreate ==
    \/ Login
    \/ CreateAnyBooking
    \/ GetBookings
    \/ GetRooms
    \/ GetCustomers

SpecCreate == InitBooking /\ [][NextCreate]_vars

\* Bookings of every status created one after the other for two rooms, on
\* dates that overlap, touch or coincide, by the admin who is logged in.
AvailRequests ==
    [room_id : {1, 2}, customer_id : {1},
     scheduled_check_in : {1, 2}, scheduled_check_out : {2, 3},
     booking_status : BookingStatusValues,
     total_amount : {2}, amount_paid : {1}]

CreateAvailBooking == CreateBookingFrom(AvailRequests, MaxRoomBookings)

NextAvail == CreateAvailBooking

SpecAvail == InitDoc /\ [][NextAvail]_vars

\* Logins and requests to a protected endpoint while the clock runs and the
\* users table is changed by an operator.  The admin holds a token that was
\* issued one lifetime ago and expires now.
InitAuth ==
    /\ users = [u \in {"admin"} |->
                   [hashed_password |-> get_password_hash("admin123"),
                    is_active |-> TRUE]]
    /\ rooms = {1, 2}
    /\ customers = <<CustomerRow("a@example.com", 1)>>
    /\ bookings = <<>>
    /\ s3 = {}
    /\ tokens = {AccessToken("admin", 1 - ACCESS_TOKEN_EXPIRE_MINUTES,
                             ACCESS_TOKEN_EXPIRE_MINUTES)}
    /\ now = 1
    /\ workers = [w \in Workers |-> Idle]
    /\ resp = NoResponse

DeactivateUser == \E u \in Usernames : deactivate_user(u)
DeleteUser == \E u \in Usernames : delete_user(u)

NextAuth ==
    \/ Login
    \/ GetBookings
    \/ GetRooms
    \/ DeactivateUser
    \/ DeleteUser
    \/ Tick

SpecAuth == InitAuth /\ [][NextAuth]_vars

\* FileValidator.validate_file called on its own, on file names put together
\* from a directory part, a stem, an extension and a trailing part, and on
\* contents of every kind and size.  The response keeps the file in pre and
\* what validate_file returned or raised in body.
PngContent == [len |-> 4, mime |-> "image/png"]
HugeExeContent == [len |-> MAX_FILE_SIZE + 1, mime |-> "application/x-dosexec"]

Contents == {PdfContent, PngContent, ExeContent, HugeContent, HugeExeContent}

Directories ==
    {<<>>,
     <<"/">>,
     <<"d", "/">>,
     <<".", ".", "/">>,
     <<".", ".", "/", ".", ".", "/", "e", "t", "c", "/">>,
     <<".", ".", "/", ".", ".", "/", ".", ".", "/", "e", "t", "c", "/">>}

Stems ==
    {<<>>, <<"a">>, <<"a", " ", "x">>, <<".", ".">>,
     <<"p", "a", "s", "s", "w", "d">>}

Extensions ==
    {<<>>, <<".">>, <<".", "p", "d", "f">>, <<".", "P", "D", "F">>,
     <<".", "p", "n", "g">>, <<".", "e", "x", "e">>}

Trailers == {<<>>, <<"/">>, <<"/", ".">>}

Filenames ==
    {d \o s \o e \o t : d \in Directories, s \in Stems, e \in Extensions,
                        t \in Trailers}

PasswdPdf == <<"p", "a", "s", "s", "w", "d", ".", "p", "d", "f">>

validate(filename, content) ==
    /\ resp' = Response("validate_file", 0, "", 0, File(filename, content),
                        validate_file(filename, content))
    /\ UNCHANGED <<users, rooms, customers, bookings, s3, tokens, now, workers>>

\* One call per behaviour: the validator keeps nothing between calls.
ValidateFile ==
    /\ resp = NoResponse
    /\ \E f \in Filenames, c \in Contents : validate(f, c)

NextValidate == ValidateFile

SpecValidate == InitBooking /\ [][NextValidate]_vars

----------------------------------------------------------------------------
(* Customers: app/models/customer.py, app/api/endpoints/customers.py *)

\* The email addresses a client sends.
Emails == {"a@example.com", "A@example.com", "b@example.com", "nobody"}

\* CustomerCreate.email_validator: ValueError for an address the pattern
\* does not match, else the address in lower case.
email_validator(v) ==
    IF v = "nobody"
    THEN <<"error", "Invalid email format">>
    ELSE IF v = "A@example.com"
    THEN <<"ok", "a@example.com">>
    ELSE <<"ok", v>>

\* A URL that is not one of the bucket, and a file name, as a client can put
\* them in the body of POST /create-customer.
ForeignUrl == [host |-> <<"example.com">>, path |-> <<"x">>]
ForeignFilename == <<"x">>

\* The bodies of POST /create-customer: proof_image_url and
\* proof_image_filename are optional fields of CustomerBase.
CustomerRequests ==
    [email : Emails, proof_image_url : {None},
     proof_image_filename : {None}]
    \cup [email : Emails, proof_image_url : {Some(ForeignUrl)},
          proof_image_filename : {Some(ForeignFilename)}]

AnyCustomerRequest ==
    [email |-> "b@example.com", proof_image_url |-> None,
     proof_image_filename |-> None]

\* CustomerDB(**customer.model_dump()): the row of a new customer, every
\* field of the validated body included.
CustomerDB(req) ==
    [email |-> email_validator(req.email)[2],
     proof_image_url |-> req.proof_image_url,
     proof_image_filename |-> req.proof_image_filename,
     uploaded_at |-> Some(now)]

\* session.query(CustomerDB).filter(CustomerDB.email == customer.email).first()
existing(email) == \E c \in 1..Len(customers) : customers[c].email = email

\* session.add(db_customer); session.commit().  The table made by the
\* migration has no unique constraint on email, the one made from the ORM
\* metadata has a unique index: email_unique says which table the database
\* holds.  With the index, a second row for the same email raises
\* IntegrityError, which the handler turns into a 500.
create_customer_commit(req, email_unique) ==
    IF email_unique /\ existing(email_validator(req.email)[2])
    THEN /\ resp' = Response("create_customer", 500, "Failed to create customer",
                             0, req.proof_image_url, {})
         /\ UNCHANGED customers
    ELSE /\ customers' = Append(customers, CustomerDB(req))
         /\ resp' = Response("create_customer", 201, "created",
                             Len(customers) + 1, req.proof_image_url, {})

\* POST /create-customer
create_customer(token, req, email_unique) ==
    /\ IF get_current_user(token) # "ok"
       THEN Unauthorized("create_customer", token) /\ UNCHANGED customers
       ELSE IF email_validator(req.email)[1] = "error"
       THEN /\ resp' = Response("create_customer", 422, email_validator(req.email)[2],
                                0, req.proof_image_url, {})
            /\ UNCHANGED customers
       ELSE IF existing(email_validator(req.email)[2])
       THEN /\ resp' = Response("create_customer", 400, "Email already registered",
                                0, req.proof_image_url, {})
            /\ UNCHANGED customers
       ELSE create_customer_commit(req, email_unique)
    /\ UNCHANGED <<users, rooms, bookings, s3, tokens, now, workers>>

\* POST /create-customer as the database sees it from one worker: the
\* duplicate query runs first, on the rows committed at that moment; the
\* insert and commit follow in a second step.  No lock is taken in between.
create_customer_begin(w, token, req) ==
    /\ workers[w].pc = "idle"
    /\ IF get_current_user(token) # "ok"
       THEN /\ Unauthorized("create_customer", token)
            /\ workers' = [workers EXCEPT ![w] =
                   [pc |-> "done", req |-> Some(req), code |-> 401]]
       ELSE IF email_validator(req.email)[1] = "error"
       THEN /\ resp' = Response("create_customer", 422, email_validator(req.email)[2],
                                0, req.proof_image_url, {})
            /\ workers' = [workers EXCEPT ![w] =
                   [pc |-> "done", req |-> Some(req), code |-> 422]]
       ELSE IF existing(email_validator(req.email)[2])
       THEN /\ resp' = Response("create_customer", 400, "Email already registered",
                                0, req.proof_image_url, {})
            /\ workers' = [workers EXCEPT ![w] =
                   [pc |-> "done", req |-> Some(req), code |-> 400]]
       ELSE /\ workers' = [workers EXCEPT ![w] =
                   [pc |-> "queried", req |-> Some(req), code |-> 0]]
            /\ UNCHANGED resp
    /\ UNCHANGED <<users, rooms, customers, bookings, s3, tokens, now>>

create_customer_end(w, email_unique) ==
    /\ workers[w].pc = "queried"
    /\ create_customer_commit(workers[w].req[1], email_unique)
    /\ workers' = [workers EXCEPT ![w].pc = "done", ![w].code = resp'.code]
    /\ UNCHANGED <<users, rooms, bookings, s3, tokens, now>>

\* Customers created by single requests and by two workers whose steps
\* interleave in any order.
CreateCustomer ==
    /\ Len(customers) < MaxCustomers
    /\ \E t \in Credentials :
          IF get_current_user(t) # "ok"
          THEN create_customer(t, AnyCustomerRequest, FALSE)
          ELSE \E r \in CustomerRequests, u \in BOOLEAN :
                  create_customer(t, r, u)

CreateCustomerBegin ==
    /\ Len(customers) < MaxCustomers
    /\ \E w \in Workers, t \in Credentials :
          IF get_current_user(t) # "ok"
          THEN create_customer_begin(w, t, AnyCustomerRequest)
          ELSE \E r \in CustomerRequests : create_customer_begin(w, t, r)

CreateCustomerEnd ==
    \E w \in Workers, u \in BOOLEAN : create_customer_end(w, u)

NextCustomer ==
    \/ CreateCustomer
    \/ CreateCustomerBegin
    \/ CreateCustomerEnd
    \/ GetCustomers

SpecCustomer == InitDoc /\ [][NextCustomer]_vars

----------------------------------------------------------------------------
(* Row locks: app/db/base_db.py and the with_for_update() queries of        *)
(* app/api/endpoints/bookings.py and documents.py.                          *)
(* A request is handled by one worker in steps: the part before the session *)
(* block, the locking query, the call to the object store, the commit.  A   *)
(* worker's request records whether its session holds the row lock.         *)

TransitionOps == {"check_in", "check_out", "cancel_booking"}
DocumentOps == {"upload_document", "delete_document"}

RowRequest(op, id, file) ==
    [op |-> op, id |-> id, file |-> file, name |-> None, key |-> None,
     seen |-> None, lock |-> FALSE]

\* validate_file(file.filename or "document", file_content)
validated(file) ==
    validate_file(IF file.filename = <<>>
                  THEN <<"d", "o", "c", "u", "m", "e", "n", "t">>
                  ELSE file.filename, file.content)

\* The table a request's locking query reads.
TableOf(op) == IF op \in TransitionOps THEN "bookings" ELSE "customers"

\* SELECT ... FOR UPDATE blocks while another session holds the row.
locked_by_other(w, req) ==
    \E v \in Workers \ {w} :
        /\ workers[v].req # None
        /\ workers[v].req[1].lock
        /\ TableOf(workers[v].req[1].op) = TableOf(req.op)
        /\ workers[v].req[1].id = req.id

\* get_session as a block is left with an exception: rollback, then close,
\* yet the lock stays with the session.  Not what base_db.py does.
get_session_exit_keeping_lock(w, code) ==
    workers' = [workers EXCEPT ![w] =
        [pc |-> "done",
         req |-> Some([workers[w].req[1] EXCEPT !.lock = (code >= 500)]),
         code |-> code]]

\* Leaving `with get_session() as session`: on an exception the session
\* rolls back, and on every path `finally: db.close()` ends the transaction,
\* which releases the row lock.
get_session_exit(w, code) ==
    workers' = [workers EXCEPT ![w] =
        [pc |-> "done",
         req |-> Some([workers[w].req[1] EXCEPT !.lock = FALSE]),
         code |-> code]]

\* The response of a request that leaves its session block.
respond(w, code, detail) ==
    /\ resp' = Response(workers[w].req[1].op, code, detail,
                        workers[w].req[1].id, "", {})
    /\ get_session_exit(w, code)

\* An upload handler that opens its session without validating the file
\* first.
row_request_without_validation(w, token, req) ==
    /\ workers[w].pc = "idle"
    /\ IF get_current_user(token) # "ok"
       THEN /\ Unauthorized(req.op, token)
            /\ workers' = [workers EXCEPT ![w] =
                   [pc |-> "done", req |-> Some(req), code |-> 401]]
       ELSE /\ workers' = [workers EXCEPT ![w] =
                   [pc |-> "waiting",
                    req |-> Some([req EXCEPT
                        !.name = IF req.op = "upload_document"
                                 THEN Some(validated(req.file)[2]) ELSE None]),
                    code |-> 0]]
            /\ UNCHANGED resp
    /\ UNCHANGED <<users, rooms, customers, bookings, s3, tokens, now>>

\* A handler up to its session block: get_current_user, and for an upload
\* validate_file, whose ValueError becomes a 400 before any session exists
\* and whose result is the safe file name the rest of the handler uses.
row_request(w, token, req) ==
    /\ workers[w].pc = "idle"
    /\ IF get_current_user(token) # "ok"
       THEN /\ Unauthorized(req.op, token)
            /\ workers' = [workers EXCEPT ![w] =
                   [pc |-> "done", req |-> Some(req), code |-> 401]]
       ELSE IF req.op = "upload_document" /\ validated(req.file)[1] = "error"
       THEN /\ resp' = Response("upload_document", 400, validated(req.file)[2],
                                req.id, "", {})
            /\ workers' = [workers EXCEPT ![w] =
                   [pc |-> "done", req |-> Some(req), code |-> 400]]
       ELSE /\ workers' = [workers EXCEPT ![w] =
                   [pc |-> "waiting",
                    req |-> Some([req EXCEPT
                        !.name = IF req.op = "upload_document"
                                 THEN Some(validated(req.file)[2]) ELSE None]),
                    code |-> 0]]
            /\ UNCHANGED resp
    /\ UNCHANGED <<users, rooms, customers, bookings, s3, tokens, now>>

\* session.query(...).filter(id == ...).with_for_update().first(), and the
\* checks the handler makes on the row before it calls anything else.
with_for_update(w) ==
    LET req == workers[w].req[1]
        rows == IF TableOf(req.op) = "bookings" THEN bookings ELSE customers
    IN
    /\ workers[w].pc = "waiting"
    /\ ~ locked_by_other(w, req)
    /\ IF req.id \notin 1..Len(rows)
       THEN respond(w, 404, IF TableOf(req.op) = "bookings"
                            THEN "Booking not found" ELSE "Customer not found")
       ELSE IF req.op = "delete_document"
               /\ customers[req.id].proof_image_url = None
       THEN respond(w, 404, "No document found")
       ELSE IF req.op = "delete_document"
               /\ get_s3_key_from_url(customers[req.id].proof_image_url[1])[1]
                      = "error"
       THEN respond(w, 500, "Invalid stored document URL")
       ELSE /\ workers' = [workers EXCEPT ![w] =
                   [pc |-> "locked",
                    req |-> Some([req EXCEPT
                        !.lock = TRUE,
                        !.seen = Some(IF TableOf(req.op) = "bookings"
                                      THEN bookings[req.id].booking_status
                                      ELSE customers[req.id].proof_image_url)]),
                    code |-> 0]]
            /\ UNCHANGED resp
    /\ UNCHANGED <<users, rooms, customers, bookings, s3, tokens, now>>

\* s3_service.upload_file or s3_service.delete_file, called while the
\* session holds the row.
store_call(w, outcome) ==
    LET req == workers[w].req[1]
        key == IF req.op = "upload_document"
               THEN generate_s3_key(req.id, req.name[1])
               ELSE get_s3_key_from_url(customers[req.id].proof_image_url[1])[2]
    IN
    /\ workers[w].pc = "locked"
    /\ req.op \in DocumentOps
    /\ IF outcome = "ClientError"
       THEN /\ respond(w, 503, IF req.op = "upload_document"
                               THEN "File upload service temporarily unavailable"
                               ELSE "File deletion service temporarily unavailable")
            /\ UNCHANGED s3
       ELSE IF outcome = "Exception"
       THEN /\ respond(w, 500, IF req.op = "upload_document"
                               THEN "Failed to upload document"
                               ELSE "Failed to delete document")
            /\ UNCHANGED s3
       ELSE /\ s3' = IF req.op = "upload_document"
                     THEN s3 \cup {key} ELSE s3 \ {key}
            /\ workers' = [workers EXCEPT ![w] =
                   [pc |-> "stored", req |-> Some([req EXCEPT !.key = Some(key)]),
                    code |-> 0]]
            /\ UNCHANGED resp
    /\ UNCHANGED <<users, rooms, customers, bookings, tokens, now>>

\* The writes to the locked row and session.commit().
session_commit(w, outcome) ==
    LET req == workers[w].req[1]
    IN
    /\ \/ workers[w].pc = "stored"
       \/ workers[w].pc = "locked" /\ req.op \in TransitionOps
    /\ IF req.op = "cancel_booking" /\ "PENDING" \notin DOMAIN BookingStatus
       THEN /\ respond(w, 500, "Failed to cancel booking")
            /\ UNCHANGED <<bookings, customers>>
       ELSE IF req.op = "cancel_booking"
               /\ bookings[req.id].booking_status \notin
                      {BookingStatus["PENDING"], BookingStatus.CONFIRMED}
       THEN /\ respond(w, 400, "Cannot cancel booking in current status")
            /\ UNCHANGED <<bookings, customers>>
       ELSE IF outcome # "ok"
       THEN /\ respond(w, 500, "commit failed")
            /\ UNCHANGED <<bookings, customers>>
       ELSE /\ bookings' =
                   IF req.op = "check_in"
                   THEN [bookings EXCEPT
                            ![req.id].actual_check_in = Some(now),
                            ![req.id].booking_status = BookingStatus.CHECKED_IN]
                   ELSE IF req.op = "check_out"
                   THEN [bookings EXCEPT
                            ![req.id].actual_check_out = Some(now),
                            ![req.id].booking_status = BookingStatus.CHECKED_OUT]
                   ELSE IF req.op = "cancel_booking"
                   THEN [bookings EXCEPT
                            ![req.id].booking_status = BookingStatus.CANCELLED]
                   ELSE bookings
            /\ customers' =
                   IF req.op = "upload_document"
                   THEN [customers EXCEPT
                            ![req.id].proof_image_url =
                                Some(generate_s3_url(req.key[1])),
                            ![req.id].proof_image_filename = req.name]
                   ELSE IF req.op = "delete_document"
                   THEN [customers EXCEPT
                            ![req.id].proof_image_url = None,
                            ![req.id].proof_image_filename = None]
                   ELSE customers
            /\ respond(w, IF req.op = "upload_document" THEN 201 ELSE 200, "ok")
    /\ UNCHANGED <<users, rooms, s3, tokens, now>>

\* The requests two workers handle: transitions of booking 1 or of a booking
\* that does not exist, uploads and deletes for customer 1 or for a customer
\* that does not exist.
RowRequests ==
    {RowRequest(op, id, AnyFile) : op \in TransitionOps, id \in {1, 2}}
    \cup {RowRequest("upload_document", id, f) :
             id \in CustomerIds,
             f \in {AnyFile, File(<<"e", ".", "p", "d", "f">>, PdfContent),
                    File(<<"x", ".", "e", "x", "e">>, ExeContent)}}
    \cup {RowRequest("delete_document", id, AnyFile) : id \in CustomerIds}

AnyRowRequest == RowRequest("check_in", 1, AnyFile)

Request ==
    \E w \in Workers, t \in Credentials :
        IF get_current_user(t) # "ok"
        THEN row_request(w, t, AnyRowRequest)
        ELSE \E r \in RowRequests : row_request(w, t, r)

WithForUpdate == \E w \in Workers : with_for_update(w)

StoreCall == \E w \in Workers, o \in S3Outcomes : store_call(w, o)

SessionCommit == \E w \in Workers, o \in CommitOutcomes : session_commit(w, o)

NextLock ==
    \/ Request
    \/ WithForUpdate
    \/ StoreCall
    \/ SessionCommit

\* The hotel with the admin logged in, a prebooked booking of customer 1 and
\* a document of customer 1 uploaded earlier.
EarlierKey == <<"customer_proofs", 1, 0, <<"e", ".", "p", "d", "f">>>>

InitLock ==
    /\ users = [u \in {"admin"} |->
                   [hashed_password |-> get_password_hash("admin123"),
                    is_active |-> TRUE]]
    /\ rooms = {1, 2}
    /\ customers = <<[CustomerRow("a@example.com", 0) EXCEPT
                         !.proof_image_url = Some(generate_s3_url(EarlierKey)),
                         !.proof_image_filename = Some(EarlierKey[4])]>>
    /\ bookings = <<BookingDB([room_id |-> 1, customer_id |-> 1,
                               scheduled_check_in |-> 1, scheduled_check_out |-> 2,
                               booking_status |-> BookingStatus.PREBOOKED,
                               total_amount |-> 2, amount_paid |-> 1])>>
    /\ s3 = {EarlierKey}
    /\ tokens = {AccessToken("admin", 1, ACCESS_TOKEN_EXPIRE_MINUTES)}
    /\ now = 1
    /\ workers = [w \in Workers |-> Idle]
    /\ resp = NoResponse

SpecLock == InitLock /\ [][NextLock]_vars

\* The calls of a request that holds a lock return, and a request blocked
\* on a row is served once the row is free.
FairLock ==
    \A w \in Workers :
        /\ WF_vars(with_for_update(w))
        /\ WF_vars(\E o \in S3Outcomes : store_call(w, o))
        /\ WF_vars(\E o \in CommitOutcomes : session_commit(w, o))

SpecLockFair == InitLock /\ [][NextLock]_vars /\ FairLock

----------------------------------------------------------------------------
(* Claims *)

Overlap(a, b) ==
    /\ a.room_id = b.room_id
    /\ a.scheduled_check_in < b.scheduled_check_out
    /\ b.scheduled_check_in < a.scheduled_check_out

BlockingStatuses == {"prebooked", "confirmed", "checked_in"}

\* C1: no room ever has two distinct bookings that are both in a status of
\* {prebooked, confirmed, checked_in} and whose intervals
\* [scheduled_check_in, scheduled_check_out) overlap.
C1_NoOverlappingActiveBookings ==
    \A i, j \in 1..Len(bookings) :
        (/\ i # j
         /\ bookings[i].booking_status \in BlockingStatuses
         /\ bookings[j].booking_status \in BlockingStatuses)
        => ~Overlap(bookings[i], bookings[j])

\* C2: of two create-booking requests for the same room with overlapping
\* intervals and active statuses that run concurrently, at most one is
\* committed; the other fails.
C2_ConcurrentCreatesOneCommits ==
    \A v, w \in Workers :
        (/\ v # w
         /\ workers[v].pc = "done"
         /\ workers[w].pc = "done"
         /\ workers[v].code \notin {401, 422}
         /\ workers[w].code \notin {401, 422}
         /\ Overlap(workers[v].req[1], workers[w].req[1])
         /\ workers[v].req[1].booking_status \in BlockingStatuses
         /\ workers[w].req[1].booking_status \in BlockingStatuses)
        => ~(workers[v].code = 201 /\ workers[w].code = 201)

\* C3: a check-in on an existing booking whose status is not prebooked or
\* confirmed is rejected (a client error that reports the current status) and
\* leaves the booking, its status and actual_check_in included, unchanged.
C3_CheckInRejectedOutsidePreCheckIn ==
    [][\A b \in 1..Len(bookings) :
          (/\ resp'.op = "check_in"
           /\ resp'.arg = b
           /\ resp'.pre \in BookingStatusValues \ {"prebooked", "confirmed"})
          => (/\ resp'.code \in 400..499
              /\ bookings'[b].booking_status = bookings[b].booking_status
              /\ bookings'[b].actual_check_in = bookings[b].actual_check_in)]_vars

\* C4: a check-out on an existing booking whose status is not checked_in is
\* rejected with 400 and leaves the booking's status and actual_check_out
\* unchanged.
C4_CheckOutRejectedUnlessCheckedIn ==
    [][\A b \in 1..Len(bookings) :
          (/\ resp'.op = "check_out"
           /\ resp'.arg = b
           /\ resp'.pre \in BookingStatusValues \ {"checked_in"})
          => (/\ resp'.code = 400
              /\ bookings'[b].booking_status = bookings[b].booking_status
              /\ bookings'[b].actual_check_out = bookings[b].actual_check_out)]_vars

\* C5: a cancel on an existing booking whose status is prebooked or confirmed
\* succeeds and sets the booking's status to cancelled.
C5_CancelSucceedsBeforeCheckIn ==
    (resp.op = "cancel_booking" /\ resp.pre \in {"prebooked", "confirmed"})
    => (/\ resp.code = 200
        /\ bookings[resp.arg].booking_status = "cancelled")

\* C6: a check-in on an existing booking whose status is prebooked or
\* confirmed succeeds, sets the status to checked_in and sets actual_check_in
\* to a non-null timestamp; a prebooked booking need not be confirmed first.
C6_CheckInSucceedsBeforeCheckIn ==
    (resp.op = "check_in" /\ resp.pre \in {"prebooked", "confirmed"})
    => (/\ resp.code = 200
        /\ bookings[resp.arg].booking_status = "checked_in"
        /\ bookings[resp.arg].actual_check_in # None)

\* A prebooked booking (no endpoint confirms one) has just been checked in.
C6_Witness ==
    /\ resp.op = "check_in"
    /\ resp.pre = "prebooked"
    /\ resp.code = 200
    /\ bookings[resp.arg].booking_status = "checked_in"
    /\ bookings[resp.arg].actual_check_in = Some(now)

StatusRank(st) ==
    CASE st = "prebooked" -> 1
      [] st = "confirmed" -> 2
      [] st = "checked_in" -> 3
      [] st = "checked_out" -> 4
      [] OTHER -> 5

\* C7: checked_out, cancelled and no_show are absorbing, and a booking's
\* status never moves backwards along
\* prebooked -> confirmed -> checked_in -> checked_out.
C7_TerminalStatusesAbsorbing ==
    [][\A b \in 1..Len(bookings) :
          /\ bookings[b].booking_status \in {"checked_out", "cancelled", "no_show"}
             => bookings'[b].booking_status = bookings[b].booking_status
          /\ StatusRank(bookings'[b].booking_status)
                >= StatusRank(bookings[b].booking_status)]_vars

\* C8: the customer's committed document locator, when non-null, refers to an
\* object that exists in the object store, whatever uploads, replacements,
\* deletes and failures of the store or of the commit have happened.
C8_LocatorRefersToStoredObject ==
    \A c \in 1..Len(customers) :
        customers[c].proof_image_url # None
        => /\ get_s3_key_from_url(customers[c].proof_image_url[1])[1] = "ok"
           /\ get_s3_key_from_url(customers[c].proof_image_url[1])[2] \in s3

\* C9: if the object-store upload fails during upload-document, whatever
\* upload_file raises, the request reports storage unavailable (503) and the
\* customer row is exactly as before: locator, filename and upload timestamp.
C9_FailedUploadLeavesRow ==
    [][(resp'.op = "upload_document" /\ resp'.pre \in {"ClientError", "Exception"})
          => /\ resp'.code = 503
             /\ customers' = customers]_vars

ProtectedOps ==
    {"get_rooms", "create_room", "get_customers", "create_customer",
     "get_bookings", "create_booking", "check_in", "check_out",
     "cancel_booking", "upload_document", "delete_document", "get_users"}

\* C10: a request without a valid bearer token to any room, customer,
\* booking, document or user-listing endpoint is answered 401 and neither
\* reads out nor changes any stored data.
C10_ProtectedEndpointsNeedToken ==
    [][(resp'.op \in ProtectedOps /\ resp'.auth # "ok")
          => /\ resp'.code = 401
             /\ resp'.body = {}
             /\ UNCHANGED <<users, rooms, customers, bookings, s3>>]_vars

\* C11: login issues a token only if the user exists, the password verifies
\* against the stored hash and the user's active flag is true; an inactive
\* user with the correct password gets no token.
C11_LoginOnlyForActiveUser ==
    [][\A u \in Usernames, p \in Passwords :
          (login(u, p) /\ resp'.code = 200)
          => (/\ u \in DOMAIN users
              /\ verify_password(p, users[u].hashed_password)
              /\ users[u].is_active)]_vars

C15_RejectedIffOverlappingActive ==
    [][resp'.op = "create_booking"
         => \A t \in tokens, r \in AvailRequests :
              (/\ BookingCreate(r) = "ok"
               /\ get_current_user(t) = "ok"
               /\ create_booking(t, r))
              => ((/\ resp'.code = 400
                   /\ resp'.detail = "Room is not available for the selected dates")
                  <=> \E b \in 1..Len(bookings) :
                         /\ bookings[b].booking_status \in BlockingStatuses
                         /\ bookings[b].room_id = r.room_id
                         /\ bookings[b].scheduled_check_in < r.scheduled_check_out
                         /\ bookings[b].scheduled_check_out > r.scheduled_check_in)]_vars

\* Booking 2 has just been created in the room of booking 1, starting on the
\* day booking 1 ends, both of them prebooked.
C15_Witness ==
    /\ Len(bookings) >= 2
    /\ resp.op = "create_booking"
    /\ resp.code = 201
    /\ resp.arg = 2
    /\ bookings[1].room_id = bookings[2].room_id
    /\ bookings[1].booking_status = "prebooked"
    /\ bookings[2].booking_status = "prebooked"
    /\ bookings[1].scheduled_check_out = bookings[2].scheduled_check_in

\* C16: two successful uploads for the same customer, the same filename
\* uploaded twice in a row included, are stored under distinct keys: a
\* successful upload never writes to a key that already holds an object.
C16_UploadKeysDistinct ==
    [][(resp'.op = "upload_document" /\ resp'.code = 201)
          => \A u \in resp'.body : get_s3_key_from_url(u)[2] \notin s3]_vars

\* C17: validate_file accepts a file only if the MIME type sniffed from its
\* bytes is the type declared by its extension.
C17_ContentMatchesExtension ==
    (resp.op = "validate_file" /\ resp.body[1] = "ok")
    => resp.pre.content.mime = ALLOWED_FILE_TYPES[resp.body[3]]

\* C18: the gates of validate_file run in the order size, filename
\* sanitization, extension presence and length, extension allow-list,
\* content sniffing, and the error is that of the first gate that fails; an
\* oversized file with a disallowed extension reports the size error.
C18_FirstFailingGateReported ==
    resp.op = "validate_file"
    => LET file == resp.pre
           size_ok == file.content.len <= MAX_FILE_SIZE
           safe == extract_and_sanitize_filename(file.filename)
           ext == extract_extension(safe[2])
       IN  /\ ~size_ok => resp.body = <<"error", "File exceeds maximum size">>
           /\ (size_ok /\ safe[1] = "error") => resp.body = safe
           /\ (size_ok /\ safe[1] = "ok" /\ ext[1] = "error") => resp.body = ext
           /\ (size_ok /\ safe[1] = "ok" /\ ext[1] = "ok"
                  /\ ext[2] \notin {<<"p", "d", "f">>, <<"j", "p", "g">>,
                                    <<"j", "p", "e", "g">>, <<"p", "n", "g">>})
              => resp.body = <<"error", "File type not allowed">>
           /\ resp.body[1] = "ok"
              => (/\ size_ok
                  /\ safe[1] = "ok"
                  /\ ext[1] = "ok"
                  /\ file.content.mime \in
                        {"application/pdf", "image/jpeg", "image/png"})

\* An oversized executable named .exe has been turned away for its size.
C18_Witness ==
    /\ resp.op = "validate_file"
    /\ resp.pre.content = HugeExeContent
    /\ resp.pre.filename = <<"a", ".", "e", "x", "e">>
    /\ resp.body = <<"error", "File exceeds maximum size">>

HasTraversal(filename) ==
    \E i \in 1..(Len(filename) - 2) :
        /\ filename[i] = "."
        /\ filename[i + 1] = "."
        /\ filename[i + 2] = "/"
        /\ i = 1 \/ filename[i - 1] = "/"

\* A filename ends in ".pdf".
EndsInPdf(filename) ==
    /\ Len(filename) >= 4
    /\ SubSeq(filename, Len(filename) - 3, Len(filename)) = <<".", "p", "d", "f">>

\* C20: validate_file rejects a filename that contains parent-directory
\* traversal components, such as "../../../etc/passwd.pdf" with valid PDF
\* content, as "Invalid filename".
C20_TraversalRejected ==
    (/\ resp.op = "validate_file"
     /\ HasTraversal(resp.pre.filename)
     /\ EndsInPdf(resp.pre.filename)
     /\ resp.pre.content = PdfContent)
    => resp.body = <<"error", "Invalid filename">>

\* C30: a booking's actual timestamps agree with its status in every
\* reachable state, although the initial status is supplied by the caller:
\* checked_in or checked_out has an actual check-in, checked_out has an actual
\* check-out, and prebooked or confirmed has neither.
C30_TimestampsAgreeWithStatus ==
    \A b \in 1..Len(bookings) :
        /\ bookings[b].booking_status \in
               {BookingStatus.CHECKED_IN, BookingStatus.CHECKED_OUT}
           => bookings[b].actual_check_in # None
        /\ bookings[b].booking_status = BookingStatus.CHECKED_OUT
           => bookings[b].actual_check_out # None
        /\ bookings[b].booking_status \in
               {BookingStatus.PREBOOKED, BookingStatus.CONFIRMED}
           => /\ bookings[b].actual_check_in = None
              /\ bookings[b].actual_check_out = None

\* C24: an upload that replaces a customer's document deletes the previous
\* object once the new locator is committed: with a working store, the
\* superseded object no longer exists after the request.
C24_SupersededObjectDeleted ==
    [][\A c \in 1..Len(customers) :
          (/\ resp'.op = "upload_document"
           /\ resp'.code = 201
           /\ resp'.arg = c
           /\ customers[c].proof_image_url # None
           /\ customers'[c].proof_image_url # customers[c].proof_image_url)
          => get_s3_key_from_url(customers[c].proof_image_url[1])[2] \notin s3']_vars

\* C26: when the deletion of an object fails, the request it belongs to still
\* succeeds and its database change is kept: a delete-document whose store
\* call raises answers 200 and leaves the locator cleared.
C26_FailedDeletionKeepsRequest ==
    [][(/\ resp'.op = "delete_document"
        /\ resp'.pre \in {"ClientError", "Exception"})
          => /\ resp'.code = 200
             /\ customers'[resp'.arg].proof_image_url = None]_vars

\* C21: no two customers share an email address in any reachable state,
\* also after create-customer requests for the same email that ran
\* concurrently: a create for an email that is taken stores nothing.
C21_EmailsUnique ==
    \A i, j \in 1..Len(customers) :
        i # j => customers[i].email # customers[j].email

\* C27: a customer's proof_image_url and proof_image_filename are set or
\* changed only by upload-document and delete-document: no other operation,
\* create-customer with the fields in its body included, writes them.
C27_LocatorWrittenOnlyByDocumentOps ==
    [][\A c \in 1..Len(customers') :
          (IF c > Len(customers)
           THEN \/ customers'[c].proof_image_url # None
                \/ customers'[c].proof_image_filename # None
           ELSE \/ customers'[c].proof_image_url # customers[c].proof_image_url
                \/ customers'[c].proof_image_filename
                       # customers[c].proof_image_filename)
          => resp'.op \in {"upload_document", "delete_document"}]_vars

\* C22: requests on one booking are serialized by its row lock, the second
\* reading the status the first committed: of two concurrent check-ins of a
\* prebooked booking, or of a concurrent check-in and cancel, exactly one
\* succeeds and the other is rejected.
C22_OneOfTwoTransitionsSucceeds ==
    \A w, v \in Workers :
        (/\ w # v
         /\ workers[w].pc = "done" /\ workers[v].pc = "done"
         /\ workers[w].req[1].op = "check_in"
         /\ workers[v].req[1].op \in {"check_in", "cancel_booking"}
         /\ workers[w].req[1].id = workers[v].req[1].id
         /\ workers[w].req[1].seen # None /\ workers[v].req[1].seen # None
         /\ Some(BookingStatus.PREBOOKED)
                \in {workers[w].req[1].seen, workers[v].req[1].seen})
        => \/ workers[w].code = 200 /\ workers[v].code \in {400, 409}
           \/ workers[v].code = 200 /\ workers[w].code \in {400, 409}

\* C23: after two concurrent uploads, or an upload and a delete, for the same
\* customer have both finished, the committed locator is the one of the
\* request that committed last and its object is in the store: no delete or
\* cleanup step has removed the object the committed locator refers to.
C23_LocatorSurvivesConcurrentRequests ==
    \A w, v \in Workers :
        (/\ w # v
         /\ workers[w].pc = "done" /\ workers[v].pc = "done"
         /\ workers[w].req[1].op = "upload_document"
         /\ workers[v].req[1].op \in DocumentOps
         /\ workers[w].req[1].id = workers[v].req[1].id
         /\ workers[w].req[1].seen # None /\ workers[v].req[1].seen # None)
        => LET url == customers[workers[w].req[1].id].proof_image_url
           IN url # None
              => /\ get_s3_key_from_url(url[1])[2] \in s3
                 /\ \/ Some(url) \in {workers[w].req[1].seen, workers[v].req[1].seen}
                    \/ \E x \in {w, v} :
                          /\ workers[x].code = 201
                          /\ url = Some(generate_s3_url(workers[x].req[1].key[1]))

\* C25: delete-document clears the locator fields and commits before it
\* deletes the object: no object is deleted from the store while a committed
\* customer row still refers to it.
C25_ObjectDeletedAfterCommit ==
    [][\A k \in s3 \ s3' :
          \A c \in 1..Len(customers) :
              customers[c].proof_image_url # None
              => get_s3_key_from_url(customers[c].proof_image_url[1]) # <<"ok", k>>]_vars

\* C28: an upload whose file fails validation is answered with a 400 before
\* the handler opens a session: it never waits for or takes the row lock,
\* stores no object, and leaves every row as it was, also when the customer
\* id does not exist.
C28_InvalidFileRejectedBeforeSession ==
    [][\A w \in Workers :
          (/\ workers[w].pc = "idle"
           /\ workers'[w].pc # "idle"
           /\ workers'[w].code # 401
           /\ workers'[w].req[1].op = "upload_document"
           /\ validated(workers'[w].req[1].file)[1] = "error")
          => /\ workers'[w].pc = "done"
             /\ workers'[w].code = 400
             /\ workers'[w].req[1].lock = FALSE
             /\ workers'[w].req[1].seen = None
             /\ workers'[w].req[1].key = None
             /\ UNCHANGED <<customers, bookings, s3>>]_vars

\* An upload of an invalid file for a customer that does not exist has been
\* answered with 400.
C28_Witness ==
    \E w \in Workers :
        /\ workers[w].pc = "done"
        /\ workers[w].code = 400
        /\ workers[w].req[1].op = "upload_document"
        /\ workers[w].req[1].id \notin 1..Len(customers)
        /\ validated(workers[w].req[1].file)[1] = "error"

\* C29: a request that takes a row lock releases it on every exit path, so
\* provided the holder's database and store calls return, a request that
\* waits for the row eventually gets it and completes, and no finished
\* request holds a lock.
C29_LockReleasedWaiterCompletes ==
    \A w \in Workers :
        (workers[w].pc \in {"waiting", "locked", "stored"})
            ~> (workers[w].pc = "done" /\ ~ workers[w].req[1].lock)

\* One request has left its session through an exception while holding the
\* row, and the other request for that row has taken the lock after it.
C29_Witness ==
    \E w, v \in Workers :
        /\ w # v
        /\ workers[w].pc = "done"
        /\ workers[w].code >= 500
        /\ workers[w].req[1].seen # None
        /\ workers[v].pc \in {"locked", "stored", "done"}
        /\ workers[v].req[1].seen # None
        /\ workers[v].req[1].lock \/ workers[v].code \in {200, 201}
        /\ TableOf(workers[v].req[1].op) = TableOf(workers[w].req[1].op)
        /\ workers[v].req[1].id = workers[w].req[1].id

====
